---- MODULE Spec2Model ----
(***************************************************************************)
(* The WebSocket relay of pragma/client/websocket.py (PragmaLightspeedClient)*)
(* and its endpoint pragma/routers/endpoints/websocket.py.                  *)
(*                                                                          *)
(* Threads of the program:                                                  *)
(*   <<"el",0>>  the asyncio event loop: runs every client handler; the     *)
(*               relay's methods are synchronous calls, so handler          *)
(*               operations never interleave with each other, only with     *)
(*               the other threads;                                         *)
(*   <<"bc",0>>  the broadcast thread (_process_messages);                  *)
(*   <<"up",k>>  the run_forever thread of the k-th WebSocketApp: it runs   *)
(*               the on_open / on_message / on_close callbacks;             *)
(*   <<"h",c>>   the thread add_client starts for connect().                *)
(* Each thread has a program position pc[t], a stack of return positions    *)
(* and the locals of the method it is in.                                   *)
(***************************************************************************)
EXTENDS Integers, Sequences, FiniteSets, TLC

\* ------------------------------------------------------------- bounds
NumClients == 2
NumPairs == 2
MaxConn == 2
MaxFrames == 1
MaxQueue == 1
MaxEntries == 2
MaxBusy == 2
MaxEvents == 6
\* the same for the runs that look at the dispatch of several frames
RelayFrames == 2
RelayQueue == 2
RelayEvents == 6

Clients == 1..NumClients
Pairs == 1..NumPairs
Conns == 1..MaxConn
NoClient == 0
NoConn == 0

Threads ==
    {<<"el", 0>>, <<"bc", 0>>} \cup ({"up"} \X Conns) \cup ({"h"} \X Clients)
EL == <<"el", 0>>
BC == <<"bc", 0>>
Up(k) == <<"up", k>>
Helper(c) == <<"h", c>>

VARIABLES
    status,           \* client transport: "new","rejected","open","slow","gone","closed"
    closeCode,        \* close code the endpoint gave a rejected transport
    connected_clients,\* keys of self.connected_clients
    subs,             \* client_info["subscriptions"] of each client
    subscribed_pairs, \* self.subscribed_pairs
    running,          \* self._running
    ws,               \* self.ws: NoConn (None) or a connection
    current,          \* self._current_client
    queue,            \* self.message_queue
    stop_event,       \* self.stop_event
    closed_ws,        \* self._closed_websockets
    ws_lock,          \* self._ws_lock (TRUE: set, i.e. unlocked)
    conn,             \* each WebSocketApp: "none","connecting","open","closed"
    pc, stack, loc,   \* per thread: position, return positions, locals
    bcData, bcList,   \* broadcast thread: message in hand, clients left to visit
    nframes,          \* upstream frames received so far
    nevents,          \* events of the environment so far
    creator,          \* each WebSocketApp: the kind of thread whose connect() made it
    bcFailed,         \* broadcast thread: the clients whose write raised in this dispatch
    delivered,        \* each client: the numbers of the price frames written to it
    budget,           \* what the environment does at most in this run, and
                      \* the number of the frame it garbles (0: any or none)
    response,         \* the last answer of the aggregated on-chain endpoint
    lastAuth,         \* what the step just taken read as Authorization header
    lastIn,           \* the client text the step just taken received
    lastEarly,        \* the registry tests (lines 187, 235, 267) that failed in the step
    lastSent,         \* what the step just taken wrote to a client transport
    lastUp            \* what the step just taken wrote to the upstream socket

vars == <<status, closeCode, connected_clients, subs, subscribed_pairs,
          running, ws, current, queue, stop_event, closed_ws, ws_lock, conn,
          pc, stack, loc, bcData, bcList, bcFailed, delivered, nframes, nevents, creator,
          budget, response, lastAuth, lastIn, lastEarly, lastSent, lastUp>>

clientVars == <<status, closeCode>>
registryVars == <<connected_clients, subs, subscribed_pairs, current, closed_ws>>
upstreamVars == <<running, ws, conn, ws_lock>>
bcVars == <<bcData, bcList, bcFailed, delivered>>
envVars == <<budget, response>>

\* ------------------------------------------------------------- values
NoMsg == [kind |-> "none", pairs |-> {}, entries |-> <<>>, ts |-> 0, origin |-> NoClient]
ConfMsg(type, pairs, origin) ==
    [kind |-> type, pairs |-> pairs, entries |-> <<>>, ts |-> 0, origin |-> origin]
PriceMsg(entries, ts) ==
    [kind |-> "price", pairs |-> {}, entries |-> entries, ts |-> ts, origin |-> NoClient]
OtherMsg(type) ==
    [kind |-> type, pairs |-> {}, entries |-> <<>>, ts |-> 0, origin |-> NoClient]

NoLocals == [cid |-> NoClient, pairs |-> {}, still |-> {}, rm |-> {}, type |-> "none", op |-> "none"]

\* lastAuth, lastIn, lastEarly, lastSent and lastUp describe the step just
\* taken only: a step that reads no header, receives no text, fails no registry
\* test, writes to no client or not to the upstream leaves the None value.
\* lastSent is the set of writes of the step, each a record
\* [to, msg, frame, subsAt, via]: the client, the message written, the queue
\* item it was made from, the client's subscriptions when it was made, and
\* whether the endpoint or the broadcast thread wrote it, and (after) the
\* clients whose write had raised before in the same dispatch.
NoSent == {}
NoUp == [type |-> "none", pairs |-> {}, requested |-> {}, conn |-> NoConn, by |-> "none"]
NoAuth == [client |-> NoClient, present |-> FALSE, parts |-> <<>>]
NoIn == [client |-> NoClient, kind |-> "none", pairs |-> {}]
NoInput == lastAuth' = NoAuth /\ lastIn' = NoIn
Quiet == NoInput /\ lastEarly' = {} /\ lastSent' = NoSent /\ lastUp' = NoUp

NConn == Cardinality({k \in Conns : conn[k] # "none"})

\* list(self.connected_clients.items()): clients are accepted in ascending id
\* order, so the dict's insertion order is the id order.
RECURSIVE SortedSeq(_)
SortedSeq(S) ==
    IF S = {} THEN <<>>
    ELSE LET m == CHOOSE x \in S : \A y \in S : x <= y
         IN <<m>> \o SortedSeq(S \ {m})

\* the connection test of lines 244, 249, 288:
\* self.ws and self.ws.sock and self.ws.sock.connected
WsConnected == ws # NoConn /\ conn[ws] = "open"

\* self.ws.close() on WebSocketApp k: the socket is closed at once, the
\* run_forever thread of k runs on_close later.
CloseConn(cn, k) == IF k = NoConn THEN cn ELSE [cn EXCEPT ![k] = IF @ = "none" THEN @ ELSE "closed"]

Goto(t, label) == pc' = [pc EXCEPT ![t] = label]

\* positions at which a thread is in no method of the relay: its locals are dead
RestLabels == {"el_idle", "bc_get", "bc_dead", "bc_fwd", "up_recv", "up_dead", "h_dead"}

\* positions at which a thread waits for its next event (an inbound text, a
\* queue item, a socket event, its start, the end of a write)
WaitLabels == {"el_idle", "bc_get", "bc_dead", "bc_blocked", "up_none", "up_start",
               "up_recv", "up_dead", "h_none", "h_start", "h_dead"}
NBusy == Cardinality({t \in Threads : pc[t] \notin WaitLabels})
\* the model lets at most MaxBusy threads be inside the relay's code at once
MayStart == NBusy < MaxBusy

\* return to the caller: pop the return position
Return(t) ==
    /\ pc' = [pc EXCEPT ![t] = Head(stack[t])]
    /\ stack' = [stack EXCEPT ![t] = Tail(@)]
    /\ loc' = [loc EXCEPT ![t] = IF Head(stack[t]) \in RestLabels THEN NoLocals ELSE @]

\* an exception that no method of the relay catches unwinds to the thread's
\* outermost handler: the endpoint's `except Exception` (then its `finally`),
\* _process_messages' `except Exception`, the WebSocketApp callback wrapper,
\* or the end of the helper thread.
ExcTarget(t) ==
    CASE t[1] = "el" -> IF loc[t].op = "finally" THEN "el_close" ELSE "el_finally"
      [] t[1] = "bc" -> IF stop_event THEN "bc_dead" ELSE "bc_get"
      [] t[1] = "up" -> IF loc[t].op = "on_open" THEN "up_recv" ELSE "up_dead"
      [] OTHER -> "h_dead"

Raise(t) ==
    /\ pc' = [pc EXCEPT ![t] = ExcTarget(t)]
    /\ stack' = [stack EXCEPT ![t] = <<>>]
    /\ loc' = [loc EXCEPT ![t] = IF ExcTarget(t) \in RestLabels THEN NoLocals ELSE @]


\* ------------------------------------------------------------- inputs
ApiKey == "secret"

\* An Authorization header: absent, or the words authorization.split() yields.
Headers ==
    { [present |-> FALSE, parts |-> <<>>],
      [present |-> TRUE, parts |-> <<>>],
      [present |-> TRUE, parts |-> <<"Bearer">>],
      [present |-> TRUE, parts |-> <<"Bearer", "secret">>],
      [present |-> TRUE, parts |-> <<"bearer", "secret">>],
      [present |-> TRUE, parts |-> <<"Basic", "secret">>],
      [present |-> TRUE, parts |-> <<"Bearer", "wrong">>],
      [present |-> TRUE, parts |-> <<"Bearer", "secret", "x">>] }

\* str.lower() on the scheme words above
Lower(s) == IF s = "Bearer" THEN "bearer" ELSE s

\* a get_token without the scheme test: the variant C7 is tested against
get_tokenAnyScheme(h) ==
    IF ~h.present THEN "Authorization header is required"
    ELSE IF Len(h.parts) # 2 THEN "Invalid authorization header format"
    ELSE IF h.parts[2] # ApiKey THEN "Invalid API key"
    ELSE "ok"

\* get_token: "ok", or the detail of the HTTPException it raises
get_token(h) ==
    IF ~h.present THEN "Authorization header is required"
    ELSE IF Len(h.parts) # 2 THEN "Invalid authorization header format"
    ELSE IF Lower(h.parts[1]) # "bearer" THEN "Invalid authorization scheme"
    ELSE IF h.parts[2] # ApiKey THEN "Invalid API key"
    ELSE "ok"

WS_1008_POLICY_VIOLATION == 1008

\* What a client writes to its transport.
ClientMsgs ==
    [kind : {"subscribe", "unsubscribe"}, pairs : SUBSET Pairs]
    \cup [kind : {"other", "badjson", "nonobject", "badpairs"}, pairs : {{}}]

\* Sequences of price entries (each entry is named by its pair).
EntrySeqs == UNION {[1..n -> Pairs] : n \in 0..MaxEntries}

\* What the upstream writes: a price frame, a subscribe or unsubscribe
\* acknowledgement, some other JSON object, or text that is not JSON.
UpFrames ==
    [kind : {"price"}, entries : EntrySeqs]
    \cup [kind : {"ack_subscribe", "ack_unsubscribe", "other", "badjson"}, entries : {<<>>}]

\* ------------------------------------------------------------- pure parts
\* a filter that keeps every entry: the variant C2_PriceFilter is tested against
FilterPricesAll(entries, client_pairs) == entries

\* lines 118-122: the entries whose pair the client subscribes to, in order
RECURSIVE FilterPrices(_, _)
FilterPrices(entries, client_pairs) ==
    IF entries = <<>> THEN <<>>
    ELSE IF Head(entries) \in client_pairs
         THEN <<Head(entries)>> \o FilterPrices(Tail(entries), client_pairs)
         ELSE FilterPrices(Tail(entries), client_pairs)

\* lines 274-276: the union of every registered client's subscriptions
StillSubscribed(reg, sb) == UNION {sb[c] : c \in reg}

\* Queue.put: the queue is unbounded in the program; the model holds at most
\* MaxQueue items while the broadcast thread lives, and drops what is put once
\* that thread has exited (nothing reads the queue any more).
\* a put that places the item at the head: the variant C11 is tested against
PutFront(q, m) == IF pc[BC] = "bc_dead" THEN q ELSE <<m>> \o q

CanPut == Len(queue) < budget.queue \/ pc[BC] = "bc_dead"
Put(q, m) == IF pc[BC] = "bc_dead" THEN q ELSE Append(q, m)


\* ------------------------------------------------------------- initial state
\* the answer variable of the on-chain endpoint before any request
NoResponse == [kind |-> "none"]

\* the relay after __init__ (lines 19-44), with no client and no upstream
Construct ==
    /\ status = [c \in Clients |-> "new"]
    /\ closeCode = [c \in Clients |-> 0]
    /\ connected_clients = {}
    /\ subs = [c \in Clients |-> {}]
    /\ subscribed_pairs = {}
    /\ running = FALSE
    /\ ws = NoConn
    /\ current = NoClient
    /\ queue = <<>>
    /\ stop_event = FALSE
    /\ closed_ws = {}
    /\ ws_lock = TRUE
    /\ conn = [k \in Conns |-> "none"]
    /\ pc = [t \in Threads |->
                CASE t[1] = "el" -> "el_idle"
                  [] t[1] = "bc" -> "bc_get"
                  [] t[1] = "up" -> "up_none"
                  [] OTHER -> "h_none"]
    /\ stack = [t \in Threads |-> <<>>]
    /\ loc = [t \in Threads |-> NoLocals]
    /\ bcData = NoMsg
    /\ bcList = <<>>
    /\ bcFailed = {}
    /\ delivered = [c \in Clients |-> {}]
    /\ nframes = 0
    /\ nevents = 0
    /\ creator = [k \in Conns |-> "none"]
    /\ lastAuth = NoAuth
    /\ lastIn = NoIn
    /\ lastEarly = {}
    /\ lastSent = NoSent
    /\ lastUp = NoUp

Init ==
    /\ Construct
    /\ response = NoResponse
    /\ budget = [frames |-> MaxFrames, queue |-> MaxQueue, events |-> MaxEvents, garbled |-> 0]

\* ------------------------------------------------------------- connect()
\* a call of connect() that returns at once: the variant C6 is tested against
CallConnectSkip(t, rets) ==
    /\ pc' = [pc EXCEPT ![t] = Head(rets)]
    /\ stack' = [stack EXCEPT ![t] = Tail(rets)]

\* thread t calls connect(); rets are the positions to return to, innermost
\* first. Lines 306-308: a call that finds the guard taken returns at once;
\* otherwise the caller goes on at line 310, in a step of its own
CallConnect(t, rets) ==
    IF ~ws_lock
    THEN /\ pc' = [pc EXCEPT ![t] = Head(rets)]
         /\ stack' = [stack EXCEPT ![t] = Tail(rets)]
    ELSE /\ pc' = [pc EXCEPT ![t] = "con2"]
         /\ stack' = [stack EXCEPT ![t] = rets]

\* lines 310-333: take the guard, close the old handle, create the new
\* WebSocketApp and start its run_forever thread
Connect2(t) ==
    /\ pc[t] = "con2"
    /\ NConn < MaxConn
    /\ LET k == NConn + 1 IN
        /\ ws_lock' = FALSE
        /\ conn' = [CloseConn(conn, ws) EXCEPT ![k] = "connecting"]
        /\ ws' = k
        /\ running' = TRUE
        /\ pc' = [pc EXCEPT ![t] = "con3", ![Up(k)] = "up_start"]
        /\ creator' = [creator EXCEPT ![k] = t[1]]
    /\ UNCHANGED <<envVars, clientVars, registryVars, queue, stop_event, stack,
                   loc, bcVars, nframes, nevents>>
    /\ Quiet

\* lines 335-347: the wait loop ends because the socket is connected, because
\* the 5 seconds are over, or because self.ws is None by now (another thread's
\* on_close cleared it): self.ws.sock then raises AttributeError
Connect3(t) ==
    /\ pc[t] = "con3"
    /\ ws_lock' = TRUE
    /\ \/ /\ ws = NoConn
          /\ Raise(t)
          /\ UNCHANGED <<ws, conn, running>>
       \/ /\ WsConnected
          /\ Return(t)
          /\ UNCHANGED <<ws, conn, running>>
       \/ /\ ws # NoConn /\ conn[ws] # "open"
          /\ conn' = CloseConn(conn, ws)
          /\ ws' = NoConn
          /\ running' = FALSE
          /\ Return(t)
    /\ UNCHANGED <<creator, envVars, clientVars, registryVars, queue, stop_event,
                   bcVars, nframes, nevents>>
    /\ Quiet

\* ------------------------------------------------------------- subscribe()
\* lines 232-247, entered by thread t with return position ret: the registry
\* test, the two updates and the call of connect()
SubscribeBegin(t, cid, pairs, op, ret) ==
    LET client_id == IF cid = NoClient THEN current ELSE cid IN
    IF client_id \notin connected_clients
    THEN /\ pc' = [pc EXCEPT ![t] = ret]
         /\ loc' = [loc EXCEPT ![t] =
                       IF ret \in RestLabels THEN NoLocals
                       ELSE [NoLocals EXCEPT !.cid = cid, !.pairs = pairs, !.op = op,
                                             !.type = "subscribe"]]
         /\ lastEarly' = {"subscribe"}
         /\ UNCHANGED <<subs, subscribed_pairs, stack>>
    ELSE /\ lastEarly' = {}
         /\ subs' = [subs EXCEPT ![client_id] = @ \cup pairs]
         /\ subscribed_pairs' = subscribed_pairs \cup pairs
         /\ loc' = [loc EXCEPT ![t] =
                       [NoLocals EXCEPT !.cid = client_id, !.pairs = pairs, !.op = op,
                                        !.type = "subscribe"]]
         /\ IF ws = NoConn \/ ~running \/ conn[ws] # "open"
            THEN CallConnect(t, <<"sub4", ret>>)
            ELSE /\ pc' = [pc EXCEPT ![t] = "sub4"]
                 /\ stack' = [stack EXCEPT ![t] = <<ret>>]

\* a control frame that lists the pairs the caller names: the variant C23 is
\* tested against
ControlFrameRequested(msg_type, pairs, desired, k, op) ==
    [type |-> msg_type, pairs |-> pairs, requested |-> pairs, conn |-> k, by |-> op]

\* the control frame of extracted_from_subscribe, line 293: it lists
\* list(self.subscribed_pairs), whatever pairs the caller names
ControlFrame(msg_type, pairs, desired, k, op) ==
    [type |-> msg_type, pairs |-> desired, requested |-> pairs, conn |-> k, by |-> op]

\* lines 249-260 with extracted_from_subscribe (lines 288-295): the frame is
\* sent and the confirmation queued only if the socket is connected
Subscribe4(t) ==
    /\ pc[t] = "sub4"
    /\ IF WsConnected
       THEN /\ lastUp' = ControlFrame("subscribe", loc[t].pairs, subscribed_pairs, ws, loc[t].op)
            /\ CanPut
            /\ queue' = Put(queue, ConfMsg("subscribe", loc[t].pairs,
                               IF loc[t].op = "on_open" THEN NoClient ELSE loc[t].cid))
       ELSE /\ lastUp' = NoUp
            /\ UNCHANGED queue
    /\ Return(t)
    /\ UNCHANGED <<creator, envVars, clientVars, registryVars, upstreamVars, stop_event,
                   bcVars, nframes, nevents>>
    /\ NoInput /\ lastEarly' = {} /\ lastSent' = NoSent

\* lines 296-302 in subscribe: the socket is closed between the test of line
\* 288 and the send of line 294, so ws.send raises; if the error text is
\* "socket is already closed" (reconnect) the relay clears its handle and calls
\* connect(). The confirmation of lines 255-256 is queued afterwards.
SubscribeSendFails(t, reconnect) ==
    /\ pc[t] = "sub4"
    /\ WsConnected
    /\ nevents < budget.events /\ nevents' = nevents + 1
    /\ conn' = CloseConn(conn, ws)
    /\ IF reconnect
       THEN /\ running' = FALSE
            /\ ws' = NoConn
            /\ CallConnect(t, <<"sub5">> \o stack[t])
            /\ UNCHANGED <<queue, loc>>
       ELSE /\ CanPut
            /\ queue' = Put(queue, ConfMsg("subscribe", loc[t].pairs,
                               IF loc[t].op = "on_open" THEN NoClient ELSE loc[t].cid))
            /\ Return(t)
            /\ UNCHANGED <<running, ws>>
    /\ UNCHANGED <<creator, envVars, clientVars, registryVars, ws_lock, stop_event, bcVars, nframes>>
    /\ NoInput /\ lastEarly' = {} /\ lastSent' = NoSent
    /\ lastUp' = [NoUp EXCEPT !.type = "error", !.conn = ws, !.by = loc[t].op]

\* lines 253-258 after the reconnect of line 302
Subscribe5(t) ==
    /\ pc[t] = "sub5"
    /\ CanPut
    /\ queue' = Put(queue, ConfMsg("subscribe", loc[t].pairs,
                       IF loc[t].op = "on_open" THEN NoClient ELSE loc[t].cid))
    /\ Return(t)
    /\ UNCHANGED <<creator, envVars, clientVars, registryVars, upstreamVars, stop_event,
                   bcVars, nframes, nevents>>
    /\ Quiet

\* ------------------------------------------------------------- unsubscribe()
\* lines 264-276, entered by thread t with return position ret
UnsubscribeBegin(t, cid, pairs, op, ret) ==
    LET client_id == IF cid = NoClient THEN current ELSE cid IN
    IF client_id \notin connected_clients
    THEN /\ pc' = [pc EXCEPT ![t] = ret]
         /\ loc' = [loc EXCEPT ![t] =
                       IF ret \in RestLabels THEN NoLocals
                       ELSE [NoLocals EXCEPT !.cid = cid, !.pairs = pairs, !.op = op,
                                             !.type = "unsubscribe"]]
         /\ lastEarly' = {"unsubscribe"}
         /\ UNCHANGED <<subs, stack>>
    ELSE /\ lastEarly' = {}
         /\ subs' = [subs EXCEPT ![client_id] = @ \ pairs]
         /\ loc' = [loc EXCEPT ![t] =
                       [NoLocals EXCEPT !.cid = client_id, !.pairs = pairs, !.op = op,
                                        !.type = "unsubscribe",
                                        !.still = StillSubscribed(connected_clients, subs')]]
         /\ pc' = [pc EXCEPT ![t] = "unsub2"]
         /\ stack' = [stack EXCEPT ![t] = <<ret>>]

\* every named pair counts as orphaned: the variant C4 is tested against
PairsToUnsubscribeAll(pairs, still_subscribed) == pairs

\* line 278: the pairs nobody holds any more
PairsToUnsubscribe(pairs, still_subscribed) == pairs \ still_subscribed

\* lines 278-284: drop the orphaned pairs from the desired set, send the
\* unsubscribe frame if the socket is connected, then close the upstream if
\* nothing is desired or nobody is registered
Unsubscribe2(t) ==
    /\ pc[t] = "unsub2"
    /\ LET pairs_to_unsubscribe == PairsToUnsubscribe(loc[t].pairs, loc[t].still) IN
        /\ subscribed_pairs' = subscribed_pairs \ pairs_to_unsubscribe
        /\ IF pairs_to_unsubscribe # {} /\ WsConnected
           THEN lastUp' = ControlFrame("unsubscribe", pairs_to_unsubscribe,
                                       subscribed_pairs', ws, loc[t].op)
           ELSE lastUp' = NoUp
        /\ IF (subscribed_pairs' = {} \/ connected_clients = {}) /\ ws # NoConn
           THEN conn' = CloseConn(conn, ws)
           ELSE UNCHANGED conn
    /\ Return(t)
    /\ UNCHANGED <<creator, envVars, clientVars, connected_clients, subs, current, closed_ws,
                   running, ws, ws_lock, queue, stop_event, bcVars, nframes, nevents>>
    /\ NoInput /\ lastEarly' = {} /\ lastSent' = NoSent

\* lines 296-302 in unsubscribe: ws.send raises as in SubscribeSendFails
UnsubscribeSendFails(t, reconnect) ==
    /\ pc[t] = "unsub2"
    /\ PairsToUnsubscribe(loc[t].pairs, loc[t].still) # {}
    /\ WsConnected
    /\ nevents < budget.events /\ nevents' = nevents + 1
    /\ subscribed_pairs' = subscribed_pairs \ PairsToUnsubscribe(loc[t].pairs, loc[t].still)
    /\ conn' = CloseConn(conn, ws)
    /\ IF reconnect
       THEN /\ running' = FALSE
            /\ ws' = NoConn
            /\ CallConnect(t, <<"unsub3">> \o stack[t])
            /\ UNCHANGED loc
       ELSE /\ Return(t)
            /\ UNCHANGED <<running, ws>>
    /\ UNCHANGED <<creator, envVars, clientVars, connected_clients, subs, current, closed_ws,
                   ws_lock, queue, stop_event, bcVars, nframes>>
    /\ NoInput /\ lastEarly' = {} /\ lastSent' = NoSent
    /\ lastUp' = [NoUp EXCEPT !.type = "error", !.conn = ws, !.by = loc[t].op]

\* lines 283-284 after the reconnect of line 302
Unsubscribe3(t) ==
    /\ pc[t] = "unsub3"
    /\ IF (subscribed_pairs = {} \/ connected_clients = {}) /\ ws # NoConn
       THEN conn' = CloseConn(conn, ws)
       ELSE UNCHANGED conn
    /\ Return(t)
    /\ UNCHANGED <<creator, envVars, clientVars, registryVars, running, ws, ws_lock, queue,
                   stop_event, bcVars, nframes, nevents>>
    /\ Quiet

\* ------------------------------------------------------------- remove_client()
\* a remove_client without the registry test of line 187: the variant C10 is
\* tested against
RemoveBeginUntested(t, client_id, op, ret) ==
    /\ connected_clients' = connected_clients \ {client_id}
    /\ closed_ws' = closed_ws \cup {client_id}
    /\ lastEarly' = IF client_id \in connected_clients THEN {} ELSE {"remove_client"}
    /\ loc' = [loc EXCEPT ![t] =
                  [NoLocals EXCEPT !.cid = client_id, !.op = op, !.rm = subs[client_id]]]
    /\ pc' = [pc EXCEPT ![t] = "rm3"]
    /\ stack' = [stack EXCEPT ![t] = <<ret>>]
    /\ UNCHANGED subs

\* lines 187-218, entered by thread t with return position ret: the entry is
\* popped and marked closed; unsubscribe(list(subscribed_pairs), client_id) is
\* then called, and its registry test (line 267) sees the registry without
\* the client. The transport itself is closed by the endpoint (lines 85-88).
RemoveBegin(t, client_id, op, ret) ==
    IF client_id \notin connected_clients
    THEN /\ pc' = [pc EXCEPT ![t] = ret]
         /\ loc' = [loc EXCEPT ![t] =
                       IF ret \in RestLabels THEN NoLocals
                       ELSE [NoLocals EXCEPT !.cid = client_id, !.op = op]]
         /\ lastEarly' = {"remove_client"}
         /\ UNCHANGED <<connected_clients, closed_ws, subs, stack>>
    ELSE /\ connected_clients' = connected_clients \ {client_id}
         /\ lastEarly' = IF subs[client_id] # {} /\ client_id \notin connected_clients'
                         THEN {"unsubscribe"} ELSE {}
         /\ closed_ws' = closed_ws \cup {client_id}
         /\ IF subs[client_id] # {} /\ client_id \in connected_clients'
            THEN /\ subs' = [subs EXCEPT ![client_id] = {}]
                 /\ loc' = [loc EXCEPT ![t] =
                               [NoLocals EXCEPT !.cid = client_id, !.op = op,
                                                !.rm = subs[client_id],
                                                !.pairs = subs[client_id],
                                                !.type = "unsubscribe",
                                                !.still = StillSubscribed(connected_clients', subs')]]
                 /\ pc' = [pc EXCEPT ![t] = "unsub2"]
                 /\ stack' = [stack EXCEPT ![t] = <<"rm3", ret>>]
            ELSE /\ loc' = [loc EXCEPT ![t] =
                               [NoLocals EXCEPT !.cid = client_id, !.op = op,
                                                !.rm = subs[client_id]]]
                 /\ pc' = [pc EXCEPT ![t] = "rm3"]
                 /\ stack' = [stack EXCEPT ![t] = <<ret>>]
                 /\ UNCHANGED subs

\* a remove_client that tears the upstream down whoever is left: the variant
\* C15 is tested against
RemoveClient3Always(t) ==
    /\ pc[t] = "rm3"
    /\ IF ws # NoConn
       THEN /\ conn' = CloseConn(conn, ws)
            /\ running' = FALSE
            /\ stop_event' = TRUE
            /\ closed_ws' = {}
       ELSE UNCHANGED <<conn, running, stop_event, closed_ws>>
    /\ Return(t)
    /\ UNCHANGED <<creator, envVars, clientVars, connected_clients, subs, subscribed_pairs, current,
                   ws, ws_lock, queue, bcVars, nframes, nevents>>
    /\ Quiet

\* lines 220-228
RemoveClient3(t) ==
    /\ pc[t] = "rm3"
    /\ IF connected_clients = {} /\ ws # NoConn
       THEN /\ conn' = CloseConn(conn, ws)
            /\ running' = FALSE
            /\ stop_event' = TRUE
            /\ closed_ws' = {}
       ELSE UNCHANGED <<conn, running, stop_event, closed_ws>>
    /\ Return(t)
    /\ UNCHANGED <<creator, envVars, clientVars, connected_clients, subs, subscribed_pairs, current,
                   ws, ws_lock, queue, bcVars, nframes, nevents>>
    /\ Quiet


\* ------------------------------------------------------------- the endpoint
Delivery(c, m, frame, via) ==
    [to |-> c, msg |-> m, frame |-> frame, subsAt |-> subs[c], via |-> via,
     after |-> IF via = "broadcast" THEN bcFailed ELSE {}]

\* add_client, lines 180-183
add_client(c) ==
    /\ connected_clients' = connected_clients \cup {c}
    /\ subs' = [subs EXCEPT ![c] = {}]
    /\ current' = c
    /\ IF ~running /\ subscribed_pairs # {}
       THEN pc' = [pc EXCEPT ![Helper(c)] = "h_start"]
       ELSE UNCHANGED pc

\* websocket_endpoint, lines 35-46 and 96-98: a new transport presents its
\* header; it is rejected with the policy-violation code or accepted and added
Accept(c, h) ==
    /\ pc[EL] = "el_idle"
    /\ status[c] = "new"
    /\ \A d \in Clients : d < c => status[d] # "new"
    /\ nevents < budget.events /\ nevents' = nevents + 1
    /\ lastAuth' = [client |-> c, present |-> h.present, parts |-> h.parts]
    /\ lastIn' = NoIn /\ lastEarly' = {} /\ lastSent' = NoSent /\ lastUp' = NoUp
    /\ IF get_token(h) # "ok"
       THEN /\ status' = [status EXCEPT ![c] = "rejected"]
            /\ closeCode' = [closeCode EXCEPT ![c] = WS_1008_POLICY_VIOLATION]
            /\ UNCHANGED <<connected_clients, subs, current, pc>>
       ELSE /\ status' = [status EXCEPT ![c] = "open"]
            /\ add_client(c)
            /\ UNCHANGED closeCode
    /\ UNCHANGED <<creator, envVars, subscribed_pairs, closed_ws, upstreamVars, queue, stop_event,
                   stack, loc, bcVars, nframes>>

\* line 183: the thread add_client started runs connect()
HelperStart(c) ==
    /\ pc[Helper(c)] = "h_start"
    /\ MayStart
    /\ CallConnect(Helper(c), <<"h_dead">>)
    /\ UNCHANGED <<creator, envVars, clientVars, registryVars, upstreamVars, queue, stop_event,
                   loc, bcVars, nframes, nevents>>
    /\ Quiet

\* lines 49-75: one inbound text of client c. Invalid JSON and an unknown
\* msg_type are answered with an error; JSON that is no object makes
\* message.get raise AttributeError, and a pairs value that is not iterable
\* makes set.update raise TypeError after the registry test of line 235
Receive(c, m) ==
    /\ pc[EL] = "el_idle"
    /\ status[c] = "open"
    /\ MayStart
    /\ nevents < budget.events /\ nevents' = nevents + 1
    /\ CASE m.kind = "badjson" ->
              /\ lastSent' = {Delivery(c, OtherMsg("error_invalid_json"), NoMsg, "endpoint")}
              /\ lastEarly' = {}
              /\ UNCHANGED <<pc, stack, loc, subs, subscribed_pairs>>
         [] m.kind = "other" ->
              /\ lastSent' = {Delivery(c, OtherMsg("error_invalid_type"), NoMsg, "endpoint")}
              /\ lastEarly' = {}
              /\ UNCHANGED <<pc, stack, loc, subs, subscribed_pairs>>
         [] m.kind = "nonobject" ->
              /\ Goto(EL, "el_finally")
              /\ loc' = [loc EXCEPT ![EL] = [NoLocals EXCEPT !.cid = c, !.op = "msg"]]
              /\ lastSent' = NoSent /\ lastEarly' = {}
              /\ UNCHANGED <<stack, subs, subscribed_pairs>>
         [] m.kind = "badpairs" ->
              /\ Goto(EL, IF c \in connected_clients THEN "el_finally" ELSE "el_confirm")
              /\ loc' = [loc EXCEPT ![EL] =
                            [NoLocals EXCEPT !.cid = c, !.op = "msg", !.type = "subscribe"]]
              /\ lastSent' = NoSent /\ lastEarly' = {}
              /\ UNCHANGED <<stack, subs, subscribed_pairs>>
         [] m.kind = "subscribe" ->
              /\ SubscribeBegin(EL, c, m.pairs, "msg", "el_confirm")
              /\ lastSent' = NoSent
         [] OTHER ->
              /\ UnsubscribeBegin(EL, c, m.pairs, "msg", "el_confirm")
              /\ lastSent' = NoSent
              /\ UNCHANGED subscribed_pairs
    /\ UNCHANGED <<creator, envVars, clientVars, connected_clients, current, closed_ws, upstreamVars,
                   queue, stop_event, bcVars, nframes>>
    /\ lastAuth' = NoAuth /\ lastUp' = NoUp
    /\ lastIn' = [client |-> c, kind |-> m.kind, pairs |-> m.pairs]

\* lines 61 and 66: the endpoint's own confirmation; a transport that went away
\* meanwhile makes send_json raise; on a transport whose writes never complete
\* the handler stays in its await for good, and the event loop goes on with
\* the other handlers
Confirm ==
    /\ pc[EL] = "el_confirm"
    /\ LET c == loc[EL].cid IN
        IF status[c] = "open"
        THEN /\ lastSent' = {Delivery(c, ConfMsg(loc[EL].type, loc[EL].pairs, c), NoMsg, "endpoint")}
             /\ Goto(EL, "el_idle")
             /\ loc' = [loc EXCEPT ![EL] = NoLocals]
        ELSE IF status[c] = "slow"
        THEN /\ lastSent' = NoSent
             /\ Goto(EL, "el_idle")
             /\ loc' = [loc EXCEPT ![EL] = NoLocals]
        ELSE /\ Goto(EL, "el_finally")
             /\ UNCHANGED loc /\ lastSent' = NoSent
    /\ UNCHANGED <<creator, envVars, clientVars, registryVars, upstreamVars, queue, stop_event,
                   stack, bcVars, nframes, nevents>>
    /\ NoInput /\ lastEarly' = {} /\ lastUp' = NoUp

\* the client's side goes away (its handler learns of it at its next receive)
ClientDrop(c) ==
    /\ status[c] = "open"
    /\ status' = [status EXCEPT ![c] = "gone"]
    /\ nevents < budget.events /\ nevents' = nevents + 1
    /\ UNCHANGED <<creator, envVars, closeCode, registryVars, upstreamVars, queue, stop_event,
                   pc, stack, loc, bcVars, nframes>>
    /\ Quiet

\* the client stops reading (a slow or half-closed peer): from now on a write
\* to its transport never completes, and it sends nothing more
ClientStall(c) ==
    /\ status[c] = "open"
    /\ status' = [status EXCEPT ![c] = "slow"]
    /\ nevents < budget.events /\ nevents' = nevents + 1
    /\ UNCHANGED <<creator, envVars, closeCode, registryVars, upstreamVars, queue, stop_event,
                   pc, stack, loc, bcVars, nframes>>
    /\ Quiet

\* line 76: receive_text raises WebSocketDisconnect; then the finally block,
\* line 84
Disconnect(c) ==
    /\ pc[EL] = "el_idle"
    /\ status[c] = "gone"
    /\ MayStart
    /\ RemoveBegin(EL, c, "finally", "el_close")
    /\ UNCHANGED <<creator, envVars, clientVars, subscribed_pairs, current, upstreamVars, queue,
                   stop_event, bcVars, nframes, nevents>>
    /\ NoInput /\ lastSent' = NoSent /\ lastUp' = NoUp

\* lines 78-84: an exception of the message loop ends in the finally block
Finally ==
    /\ pc[EL] = "el_finally"
    /\ RemoveBegin(EL, loc[EL].cid, "finally", "el_close")
    /\ UNCHANGED <<creator, envVars, clientVars, subscribed_pairs, current, upstreamVars, queue,
                   stop_event, bcVars, nframes, nevents>>
    /\ NoInput /\ lastSent' = NoSent /\ lastUp' = NoUp

\* lines 85-95 and the end of the handler: the transport is closed
CloseTransport ==
    /\ pc[EL] = "el_close"
    /\ status' = [status EXCEPT ![loc[EL].cid] = "closed"]
    /\ Goto(EL, "el_idle")
    /\ loc' = [loc EXCEPT ![EL] = NoLocals]
    /\ UNCHANGED <<creator, envVars, closeCode, registryVars, upstreamVars, queue, stop_event,
                   stack, bcVars, nframes, nevents>>
    /\ Quiet

\* ------------------------------------------------------------- upstream thread
\* the socket of WebSocketApp k connects: sock.connected, then on_open
UpOpen(k) ==
    /\ pc[Up(k)] = "up_start"
    /\ conn[k] = "connecting"
    /\ MayStart
    /\ nevents < budget.events /\ nevents' = nevents + 1
    /\ conn' = [conn EXCEPT ![k] = "open"]
    /\ Goto(Up(k), "on_open")
    /\ UNCHANGED <<creator, envVars, clientVars, registryVars, running, ws, ws_lock, queue,
                   stop_event, stack, loc, bcVars, nframes>>
    /\ Quiet

\* the socket of k fails to connect, is dropped by the peer, or was closed by
\* self.ws.close(): run_forever tears down and calls on_close, lines 160-169
on_close(k) ==
    /\ pc[Up(k)] \in {"up_start", "up_recv"}
    /\ MayStart
    /\ IF conn[k] = "closed"
       THEN UNCHANGED nevents
       ELSE nevents < budget.events /\ nevents' = nevents + 1
    /\ conn' = [conn EXCEPT ![k] = "closed"]
    /\ running' = FALSE
    /\ ws' = NoConn
    /\ IF connected_clients # {}
       THEN CallConnect(Up(k), <<"up_dead">>)
       ELSE Goto(Up(k), "up_dead") /\ UNCHANGED stack
    /\ UNCHANGED <<creator, envVars, clientVars, registryVars, ws_lock, queue, stop_event,
                   loc, bcVars, nframes>>
    /\ Quiet

\* on_open, lines 171-176: subscribe(list(self.subscribed_pairs)) without a
\* client id
on_open(k) ==
    /\ pc[Up(k)] = "on_open"
    /\ IF subscribed_pairs # {}
       THEN SubscribeBegin(Up(k), NoClient, subscribed_pairs, "on_open", "up_recv")
       ELSE /\ Goto(Up(k), "up_recv")
            /\ lastEarly' = {}
            /\ UNCHANGED <<stack, loc, subs, subscribed_pairs>>
    /\ UNCHANGED <<creator, envVars, clientVars, connected_clients, current, closed_ws, upstreamVars,
                   queue, stop_event, bcVars, nframes, nevents>>
    /\ NoInput /\ lastSent' = NoSent /\ lastUp' = NoUp

\* an on_message that queues whatever arrives: the variant C26 is tested
\* against
on_messageQueueAll(k, f) ==
    /\ pc[Up(k)] = "up_recv"
    /\ conn[k] = "open"
    /\ nframes < budget.frames
    /\ nframes' = nframes + 1
    /\ nevents < budget.events /\ nevents' = nevents + 1
    /\ CanPut
    /\ queue' = Put(queue, IF f.kind = "price"
                           THEN PriceMsg(f.entries, nframes')
                           ELSE OtherMsg(f.kind))
    /\ UNCHANGED <<creator, envVars, clientVars, registryVars, upstreamVars, stop_event,
                   pc, stack, loc, bcVars>>
    /\ Quiet

\* on_message, lines 141-154
on_message(k, f) ==
    /\ pc[Up(k)] = "up_recv"
    /\ conn[k] = "open"
    /\ nframes < budget.frames
    /\ nframes' = nframes + 1
    /\ nevents < budget.events /\ nevents' = nevents + 1
    /\ IF f.kind \in {"badjson", "ack_subscribe"}
       THEN UNCHANGED queue
       ELSE /\ CanPut
            /\ queue' = Put(queue, IF f.kind = "price"
                                   THEN PriceMsg(f.entries, nframes')
                                   ELSE OtherMsg(f.kind))
    /\ UNCHANGED <<creator, envVars, clientVars, registryVars, upstreamVars, stop_event,
                   pc, stack, loc, bcVars>>
    /\ Quiet

\* ------------------------------------------------------------- broadcast thread
\* a loop that writes an update to every client, matching entries or not: the
\* variant C25 is tested against
OutgoingAlways(data, client_pairs) ==
    IF data.kind = "price"
    THEN PriceMsg(FilterPrices(data.entries, client_pairs), data.ts)
    ELSE data

\* lines 115-129: what the forwarding loop writes to a client with the given
\* subscriptions for queue item data; NoMsg if it writes nothing
Outgoing(data, client_pairs) ==
    IF data.kind = "price"
    THEN LET filtered_prices == FilterPrices(data.entries, client_pairs) IN
         IF filtered_prices # <<>> \/ data.entries = <<>>
         THEN PriceMsg(filtered_prices, data.ts)
         ELSE NoMsg
    ELSE data

\* a loop that gives up at the first write that raises: the variant C12 is
\* tested against
BroadcastScanStop(data, list, sent, rt) ==
    LET RECURSIVE Scan(_, _)
        Scan(l, acc) ==
            IF l = <<>>
            THEN [sent |-> acc, event |-> "done", who |-> NoClient, rest |-> <<>>]
            ELSE LET c == Head(l)
                     out == Outgoing(data, subs[c])
                 IN IF c \in closed_ws \/ out = NoMsg
                    THEN Scan(Tail(l), acc)
                    ELSE IF status[c] = "open"
                    THEN Scan(Tail(l), acc \cup {Delivery(c, out, data, "broadcast")})
                    ELSE [sent |-> acc,
                          event |-> IF status[c] = "slow" THEN "block" ELSE "evict",
                          who |-> c, rest |-> <<>>]
    IN Scan(list, sent)

\* lines 106-139: the forwarding loop over the snapshot list, up to the first
\* client whose send_json raises or does not complete. A transport whose client
\* went away raises an error that leads to remove_client (line 139); on a
\* transport the endpoint has finished with, the error is the RuntimeError of
\* line 131 (rt) or another; the await of line 126 or 129 on a transport whose
\* writes never complete does not return
BroadcastScan(data, list, sent, rt) ==
    LET RECURSIVE Scan(_, _)
        Scan(l, acc) ==
            IF l = <<>>
            THEN [sent |-> acc, event |-> "done", who |-> NoClient, rest |-> <<>>]
            ELSE LET c == Head(l)
                     out == Outgoing(data, subs[c])
                 IN IF c \in closed_ws \/ out = NoMsg
                    THEN Scan(Tail(l), acc)
                    ELSE IF status[c] = "open"
                    THEN Scan(Tail(l), acc \cup {Delivery(c, out, data, "broadcast")})
                    ELSE IF status[c] = "slow"
                    THEN [sent |-> acc, event |-> "block", who |-> c, rest |-> Tail(l)]
                    ELSE [sent |-> acc,
                          event |-> IF status[c] = "closed" /\ rt THEN "mark" ELSE "evict",
                          who |-> c, rest |-> Tail(l)]
    IN Scan(list, sent)

\* the forwarding loop from the client list `list` on
Forward(data, list, rt) ==
    LET r == BroadcastScan(data, list, {}, rt) IN
    /\ lastSent' = r.sent
    /\ delivered' = [c \in Clients |->
                        IF data.kind = "price" /\ \E d \in r.sent : d.to = c
                        THEN delivered[c] \cup {data.ts} ELSE delivered[c]]
    /\ CASE r.event = "done" ->
              /\ Goto(BC, IF stop_event THEN "bc_dead" ELSE "bc_get")
              /\ bcData' = NoMsg /\ bcList' = <<>> /\ bcFailed' = {}
              /\ lastEarly' = {}
              /\ UNCHANGED <<connected_clients, closed_ws, subs, stack, loc>>
         [] r.event = "block" ->
              /\ Goto(BC, "bc_blocked")
              /\ bcData' = data /\ bcList' = r.rest
              /\ lastEarly' = {}
              /\ UNCHANGED <<connected_clients, closed_ws, subs, stack, loc, bcFailed>>
         [] r.event = "mark" ->
              /\ closed_ws' = closed_ws \cup {r.who}
              /\ lastEarly' = {}
              /\ Goto(BC, "bc_fwd")
              /\ bcData' = data /\ bcList' = r.rest
              /\ bcFailed' = bcFailed \cup {r.who}
              /\ UNCHANGED <<connected_clients, subs, stack, loc>>
         [] OTHER ->
              /\ RemoveBegin(BC, r.who, "evict", "bc_fwd")
              /\ bcData' = data /\ bcList' = r.rest
              /\ bcFailed' = bcFailed \cup {r.who}

\* lines 91-103: a queued confirmation goes to every registered, non-closed
\* client whose subscriptions contain all its pairs, in the registry's order;
\* send errors are swallowed, and a write that never completes (line 100)
\* keeps the loop from the clients after it
ConfirmationStalled(data) ==
    {c \in connected_clients :
        c \notin closed_ws /\ data.pairs \subseteq subs[c] /\ status[c] = "slow"}

ConfirmationTargets(data) ==
    {c \in connected_clients :
        /\ c \notin closed_ws /\ data.pairs \subseteq subs[c] /\ status[c] = "open"
        /\ \A d \in ConfirmationStalled(data) : c < d}

\* _process_messages, lines 48-63, with _broadcast_message: one queue item
BroadcastGet(rt) ==
    /\ pc[BC] = "bc_get"
    /\ queue # <<>>
    /\ MayStart
    /\ queue' = Tail(queue)
    /\ LET data == Head(queue) IN
        IF connected_clients = {}
        THEN /\ IF WsConnected
                THEN conn' = CloseConn(conn, ws) /\ running' = FALSE
                ELSE UNCHANGED <<conn, running>>
             /\ Goto(BC, IF stop_event THEN "bc_dead" ELSE "bc_get")
             /\ lastSent' = NoSent /\ lastEarly' = {}
             /\ UNCHANGED <<connected_clients, closed_ws, subs, stack, loc, bcVars>>
        ELSE IF data.kind = "subscribe"
        THEN /\ lastSent' = {Delivery(c, data, data, "broadcast") : c \in ConfirmationTargets(data)}
             /\ lastEarly' = {}
             /\ Goto(BC, IF ConfirmationStalled(data) # {} THEN "bc_blocked"
                         ELSE IF stop_event THEN "bc_dead" ELSE "bc_get")
             /\ UNCHANGED <<connected_clients, closed_ws, subs, stack, loc, bcVars,
                            conn, running>>
        ELSE /\ Forward(data, SortedSeq(connected_clients), rt)
             /\ UNCHANGED <<conn, running>>
    /\ UNCHANGED <<creator, envVars, clientVars, subscribed_pairs, current, ws, ws_lock, stop_event,
                   nframes, nevents>>
    /\ NoInput /\ lastUp' = NoUp

\* the forwarding loop goes on after line 134 or line 139
BroadcastForward(rt) ==
    /\ pc[BC] = "bc_fwd"
    /\ Forward(bcData, bcList, rt)
    /\ UNCHANGED <<creator, envVars, clientVars, subscribed_pairs, current, upstreamVars, queue,
                   stop_event, nframes, nevents>>
    /\ NoInput /\ lastUp' = NoUp

\* line 48 after a get that timed out: the thread ends once stop_event is set
BroadcastExit ==
    /\ pc[BC] = "bc_get"
    /\ stop_event
    /\ Goto(BC, "bc_dead")
    /\ UNCHANGED <<creator, envVars, clientVars, registryVars, upstreamVars, queue, stop_event,
                   stack, loc, bcVars, nframes, nevents>>
    /\ Quiet

\* ------------------------------------------------------------- the program
Next ==
    \/ \E c \in Clients, h \in Headers : Accept(c, h)
    \/ \E c \in Clients : HelperStart(c)
    \/ \E c \in Clients, m \in ClientMsgs : Receive(c, m)
    \/ Confirm
    \/ \E c \in Clients : ClientDrop(c)
    \/ \E c \in Clients : ClientStall(c)
    \/ \E c \in Clients : Disconnect(c)
    \/ Finally
    \/ CloseTransport
    \/ \E t \in Threads : Connect2(t)
    \/ \E t \in Threads : Connect3(t)
    \/ \E t \in Threads : Subscribe4(t)
    \/ \E t \in Threads, reconnect \in BOOLEAN : SubscribeSendFails(t, reconnect)
    \/ \E t \in Threads : Subscribe5(t)
    \/ \E t \in Threads : Unsubscribe2(t)
    \/ \E t \in Threads, reconnect \in BOOLEAN : UnsubscribeSendFails(t, reconnect)
    \/ \E t \in Threads : Unsubscribe3(t)
    \/ \E t \in Threads : RemoveClient3(t)
    \/ \E k \in Conns : UpOpen(k)
    \/ \E k \in Conns : on_open(k)
    \/ \E k \in Conns, f \in UpFrames : on_message(k, f)
    \/ \E k \in Conns : on_close(k)
    \/ \E rt \in BOOLEAN : BroadcastGet(rt)
    \/ \E rt \in BOOLEAN : BroadcastForward(rt)
    \/ BroadcastExit

Spec == Init /\ [][Next]_vars

\* ------------------------------------------------------------- the relay at work
\* The same program in an environment that keeps to the protocol: every
\* header is the valid one, every client text is a subscribe or unsubscribe
\* request for one pair, every upstream frame is a price frame and no write
\* to the upstream socket fails; it sends more frames in exchange.
GoodHeader == [present |-> TRUE, parts |-> <<"Bearer", ApiKey>>]
RelayMsgs == [kind : {"subscribe", "unsubscribe"}, pairs : {{p} : p \in Pairs}]
RelayFrameSet == [kind : {"price"}, entries : EntrySeqs]

InitRelay ==
    /\ Construct
    /\ response = NoResponse
    /\ budget = [frames |-> RelayFrames, queue |-> RelayQueue, events |-> RelayEvents, garbled |-> 0]

NextRelay ==
    \/ \E c \in Clients : Accept(c, GoodHeader)
    \/ \E c \in Clients : HelperStart(c)
    \/ \E c \in Clients, m \in RelayMsgs : Receive(c, m)
    \/ Confirm
    \/ \E c \in Clients : ClientDrop(c)
    \/ \E c \in Clients : Disconnect(c)
    \/ Finally
    \/ CloseTransport
    \/ \E t \in Threads : Connect2(t)
    \/ \E t \in Threads : Connect3(t)
    \/ \E t \in Threads : Subscribe4(t)
    \/ \E t \in Threads : Unsubscribe2(t)
    \/ \E t \in Threads : RemoveClient3(t)
    \/ \E k \in Conns : UpOpen(k)
    \/ \E k \in Conns : on_open(k)
    \/ \E k \in Conns, f \in RelayFrameSet : on_message(k, f)
    \/ \E k \in Conns : on_close(k)
    \/ \E rt \in BOOLEAN : BroadcastGet(rt)
    \/ \E rt \in BOOLEAN : BroadcastForward(rt)
    \/ BroadcastExit

SpecRelay == InitRelay /\ [][NextRelay]_vars

\* The relay at work with an upstream that garbles one frame: the frame with
\* the number budget.garbled is text that is not JSON, the others are price
\* frames.
GarbledFrame == [kind |-> "badjson", entries |-> <<>>]
FramesAt(n) == IF n = budget.garbled THEN {GarbledFrame} ELSE RelayFrameSet

InitGarbled ==
    /\ Construct
    /\ response = NoResponse
    /\ budget \in {[frames |-> RelayFrames, queue |-> RelayQueue, events |-> RelayEvents,
                    garbled |-> n] : n \in 1..RelayFrames}

NextGarbled ==
    \/ \E c \in Clients : Accept(c, GoodHeader)
    \/ \E c \in Clients : HelperStart(c)
    \/ \E c \in Clients, m \in RelayMsgs : Receive(c, m)
    \/ Confirm
    \/ \E c \in Clients : ClientDrop(c)
    \/ \E c \in Clients : Disconnect(c)
    \/ Finally
    \/ CloseTransport
    \/ \E t \in Threads : Connect2(t)
    \/ \E t \in Threads : Connect3(t)
    \/ \E t \in Threads : Subscribe4(t)
    \/ \E t \in Threads : Unsubscribe2(t)
    \/ \E t \in Threads : RemoveClient3(t)
    \/ \E k \in Conns : UpOpen(k)
    \/ \E k \in Conns : on_open(k)
    \/ \E k \in Conns, f \in FramesAt(nframes + 1) : on_message(k, f)
    \/ \E k \in Conns : on_close(k)
    \/ \E rt \in BOOLEAN : BroadcastGet(rt)
    \/ \E rt \in BOOLEAN : BroadcastForward(rt)
    \/ BroadcastExit

SpecGarbled == InitGarbled /\ [][NextGarbled]_vars


\* ------------------------------------------------------------- on-chain endpoint
\* get_aggregated_onchain_data of pragma/routers/endpoints/onchain.py. Strings
\* that the code takes apart are sequences of characters.
MaxPairLen == 3
PairChars == {"b", "B", "/"}
OnchainPairs == UNION {[1..n -> PairChars] : n \in 1..MaxPairLen}

\* str.upper() and str.lower(), character by character
UpperChar(ch) == IF ch = "b" THEN "B" ELSE ch
LowerChar(ch) == IF ch = "B" THEN "b" ELSE ch
upper(str) == [i \in 1..Len(str) |-> UpperChar(str[i])]
lower(str) == [i \in 1..Len(str) |-> LowerChar(str[i])]

\* str.split("/")[0]: the characters before the first "/"
SplitFirst(str) ==
    LET I == {i \in 1..Len(str) : str[i] = "/"} IN
    IF I = {} THEN str
    ELSE SubSeq(str, 1, (CHOOSE i \in I : \A j \in I : i <= j) - 1)

Null == [type |-> "null"]
Str(chars) == [type |-> "str", chars |-> chars]
Num(v) == [type |-> "int", v |-> v]
Dict(name) == [type |-> "dict", name |-> name]

\* int(x, 16): the value of a string of hex digits with an optional 0x
\* prefix; ValueError on another string, TypeError on a value that is no string
HexDigits == {"0", "1", "f"}
HexDigit(ch) == IF ch = "0" THEN 0 ELSE IF ch = "1" THEN 1 ELSE 15
HexBody(chars) ==
    IF Len(chars) >= 2 /\ chars[1] = "0" /\ chars[2] = "x"
    THEN SubSeq(chars, 3, Len(chars)) ELSE chars
RECURSIVE HexValue(_)
HexValue(digits) ==
    IF digits = <<>> THEN 0
    ELSE 16 * HexValue(SubSeq(digits, 1, Len(digits) - 1)) + HexDigit(digits[Len(digits)])
int16(x) ==
    IF x.type # "str" THEN [ok |-> FALSE, error |-> "TypeError", v |-> 0]
    ELSE IF HexBody(x.chars) = <<>> \/ \E i \in 1..Len(HexBody(x.chars)) : HexBody(x.chars)[i] \notin HexDigits
    THEN [ok |-> FALSE, error |-> "ValueError", v |-> 0]
    ELSE [ok |-> TRUE, error |-> "", v |-> HexValue(HexBody(x.chars))]

\* 10 ** d
RECURSIVE Pow10(_)
Pow10(d) == IF d = 0 THEN 1 ELSE 10 * Pow10(d - 1)

\* What client.get_onchain_data_aggregated does: it raises, or returns None,
\* an empty object, a list, or an object with some of the keys below.
DataKeys == {"error", "price", "decimals", "variations", "nb_sources_aggregated"}
PriceValues == {Str(<<"0", "x", "1", "f">>), Str(<<"f", "f">>), Str(<<"z">>), Str(<<"0", "x">>), Num(31), Null}
DecimalsValues == {Num(0), Num(2), Str(<<"1">>)}
VariationsValues == {Dict("variations"), Null}
ErrorValues == {Str(<<"A", "P", "I">>), Null}
Objects ==
    [shape : {"dict"}, keys : SUBSET DataKeys \ {{}}, error : ErrorValues, price : PriceValues,
     decimals : DecimalsValues, variations : VariationsValues, sources : {Num(9)}]
NoObject(shape) ==
    [shape |-> shape, keys |-> {}, error |-> Null, price |-> Null, decimals |-> Null,
     variations |-> Null, sources |-> Null]
ClientResults ==
    [kind : {"raise"}, text : {Str(<<"T", "e", "s", "t">>)}, data : {NoObject("none")}]
    \cup [kind : {"return"}, text : {Null},
          data : Objects \cup {NoObject("none"), NoObject("dict"), NoObject("emptylist"), NoObject("list")}]

\* data.get(key, default)
Get(data, key, default) ==
    IF key \notin data.keys THEN default
    ELSE CASE key = "error" -> data.error
           [] key = "price" -> data.price
           [] key = "decimals" -> data.decimals
           [] key = "variations" -> data.variations
           [] OTHER -> data.sources

\* line 36: `not data`, and `"error" in data`
Falsy(data) == data.shape \in {"none", "emptylist"} \/ (data.shape = "dict" /\ data.keys = {})
HasError(data) == data.shape = "dict" /\ "error" \in data.keys

\* a test that looks at emptiness only: the variant C19 is tested against
IsErrorBodyEmptyOnly(data) == Falsy(data)

\* line 36
IsErrorBody(data) == Falsy(data) \/ HasError(data)

ZeroVariations == [past1h |-> Num(0), past24h |-> Num(0), past7d |-> Num(0)]

\* the record of lines 37-54 and 79-96
ErrorRecord(pair, error) ==
    [image |-> lower(SplitFirst(pair)), type |-> "Crypto", ticker |-> pair,
     lastUpdated |-> "Error fetching data", price |-> Num(0), sources |-> Num(0),
     variations |-> ZeroVariations, chart |-> "", ema |-> "N/A", macd |-> "N/A",
     error |-> error, isUnsupported |-> FALSE]

\* lines 57-75: the record of a body that is no error body, or the exception
\* one of its expressions raises (in the order of evaluation)
SuccessRecord(pair, data) ==
    LET price == int16(Get(data, "price", Str(<<"0", "x", "0">>)))
        decimals == Get(data, "decimals", Num(8))
        variations == Get(data, "variations", Dict("empty"))
    IN  IF data.shape # "dict" THEN [raised |-> TRUE, text |-> Str(<<"AttributeError">>)]
        ELSE IF ~price.ok THEN [raised |-> TRUE, text |-> Str(<<price.error>>)]
        ELSE IF decimals.type # "int" THEN [raised |-> TRUE, text |-> Str(<<"TypeError">>)]
        ELSE IF variations.type # "dict" THEN [raised |-> TRUE, text |-> Str(<<"AttributeError">>)]
        ELSE [raised |-> FALSE, text |-> Null,
              body |-> [image |-> lower(SplitFirst(pair)), type |-> "Crypto", ticker |-> pair,
                        lastUpdated |-> "timestamp",
                        price |-> [type |-> "ratio", num |-> price.v, den |-> Pow10(decimals.v)],
                        sources |-> Get(data, "nb_sources_aggregated", Num(0)),
                        variations |-> [past1h |-> variations, past24h |-> variations,
                                        past7d |-> variations],
                        chart |-> "", ema |-> "N/A", macd |-> "N/A",
                        error |-> Null, isUnsupported |-> FALSE]]

\* lines 30-96: the try block and its `except Exception`; the handler returns
\* a record on every path, which FastAPI answers with status 200
Answer(path, result) ==
    LET pair == upper(path) IN
    IF result.kind = "raise" THEN ErrorRecord(pair, result.text)
    ELSE IF IsErrorBody(result.data)
    THEN ErrorRecord(pair, IF Falsy(result.data) THEN Str(<<"Failed to fetch data">>)
                           ELSE Get(result.data, "error", Null))
    ELSE LET r == SuccessRecord(pair, result.data) IN
         IF r.raised THEN ErrorRecord(pair, r.text) ELSE r.body

\* a request that waits for its answer
Request(path, result) ==
    [kind |-> "request", pair |-> path, result |-> result, status |-> 0, body |-> Null]

get_aggregated_onchain_data(path, result) ==
    /\ response = Request(path, result)
    /\ response' = [kind |-> "answer", pair |-> path, result |-> result,
                    status |-> 200, body |-> Answer(path, result)]
    /\ UNCHANGED <<status, closeCode, connected_clients, subs, subscribed_pairs,
                   running, ws, current, queue, stop_event, closed_ws, ws_lock, conn,
                   pc, stack, loc, bcVars, nframes, nevents, creator, budget,
                   lastAuth, lastIn, lastEarly, lastSent, lastUp>>

NextOnchain ==
    /\ response.kind = "request"
    /\ get_aggregated_onchain_data(response.pair, response.result)

InitOnchain ==
    /\ Construct
    /\ budget = [frames |-> MaxFrames, queue |-> MaxQueue, events |-> MaxEvents, garbled |-> 0]
    /\ response \in {Request(path, result) : path \in OnchainPairs, result \in ClientResults}

SpecOnchain == InitOnchain /\ [][NextOnchain]_vars

\* ------------------------------------------------------------- claims
\* the union of the subscription sets of the registered clients
ClientUnion == UNION {subs[c] : c \in connected_clients}

\* no thread is inside a method of the relay
Quiescent == \A t \in Threads : pc[t] \in WaitLabels

\* C1: in every reachable state the desired set (subscribed_pairs) is a
\* superset of the union of the subscription sets of all registered clients.
C1_DesiredCoversClients == ClientUnion \subseteq subscribed_pairs

\* the same with every thread outside the relay's methods: no operation is
\* half done
C1_DesiredCoversClientsAtRest == Quiescent => ClientUnion \subseteq subscribed_pairs

\* the positions of the entries of a frame whose pair is in S
Kept(entries, S) == {i \in 1..Len(entries) : entries[i] \in S}

\* the j-th smallest element of a set of positions
Nth(I, j) == CHOOSE i \in I : Cardinality({x \in I : x < i}) = j - 1

\* C2: a message delivered to a client for a price frame contains exactly the
\* entries of the frame whose pair is in the client's subscription set at
\* dispatch time, in the frame's order and with the frame's timestamp.
C2_PriceFilter ==
    \A d \in lastSent :
        d.frame.kind = "price" =>
            LET I == Kept(d.frame.entries, d.subsAt) IN
            /\ d.msg.kind = "price"
            /\ d.msg.ts = d.frame.ts
            /\ Len(d.msg.entries) = Cardinality(I)
            /\ \A j \in 1..Len(d.msg.entries) :
                  d.msg.entries[j] = d.frame.entries[Nth(I, j)]

\* a frame with entries for two pairs went to a registered client that holds
\* one of them
C2_Witness ==
    \E d \in lastSent :
        /\ d.frame.kind = "price"
        /\ d.to \in connected_clients
        /\ Len(d.frame.entries) = 2
        /\ d.frame.entries[1] # d.frame.entries[2]
        /\ Len(d.msg.entries) = 1

\* C3: once remove_client has dealt with the removed client's pairs (line
\* 220), every pair the client held that no remaining client holds has left
\* the desired set.
C3_RemovalShrinksDesired ==
    \A t \in Threads :
        pc[t] = "rm3" => (loc[t].rm \ ClientUnion) \cap subscribed_pairs = {}

\* the pairs an unsubscribe call found orphaned, and the step that acts on them
Orphans(t) == loc[t].pairs \ loc[t].still
UnsubscribeStep(t) == pc[t] = "unsub2" /\ pc'[t] # "unsub2"

C5_ReplayOnReconnect ==
    [][\A k \in Conns :
          ( /\ pc[Up(k)] = "on_open" /\ pc'[Up(k)] # "on_open"
            /\ creator[k] = "up"
            /\ subscribed_pairs # {}
            /\ connected_clients # {} )
          => pc'[Up(k)] \in {"sub4", "con2"}]_vars

\* the test of line 244: the upstream cannot be used as it is
UpstreamIdle == ws = NoConn \/ ~running \/ conn[ws] # "open"

\* C6: when the last client is removed while the upstream is connected, the
\* upstream connection is closed; a subscribe of a registered client that finds
\* the upstream idle calls connect() (or finds a connect in flight), and a
\* connect closes the handle it finds and starts a connection not used before.
C6_LazyTeardown ==
    [][ /\ \A t \in Threads :
             (pc[t] = "rm3" /\ pc'[t] # "rm3" /\ connected_clients = {} /\ WsConnected)
                 => conn'[ws] = "closed" /\ ~running'
        /\ ( /\ lastIn'.kind = "subscribe"
             /\ lastIn'.client \in connected_clients
             /\ UpstreamIdle )
           => (pc'[EL] = "con2" \/ (~ws_lock /\ pc'[EL] = "sub4"))
        /\ \A t \in Threads :
             (pc[t] = "con2" /\ pc'[t] = "con3")
                 => /\ ws' # NoConn
                    /\ conn[ws'] = "none"
                    /\ conn'[ws'] = "connecting"
                    /\ ws # NoConn => conn'[ws] = "closed" ]_vars

\* the last client left and the upstream was torn down; the subscribe of a
\* client that came afterwards has started connection 2
C6_Witness ==
    /\ stop_event
    /\ pc[EL] = "con3"
    /\ loc[EL].cid \in connected_clients
    /\ ws # NoConn
    /\ creator[ws] = "el"
    /\ conn[ws] = "connecting"
    /\ \E k \in Conns : k # ws /\ conn[k] = "closed" /\ creator[k] = "el"

\* a header that is missing, malformed, not of scheme Bearer, or carries
\* another token than the configured secret
BadHeader(a) ==
    \/ ~a.present
    \/ Len(a.parts) # 2
    \/ a.parts[1] \notin {"Bearer", "bearer"}
    \/ a.parts[2] # ApiKey

\* C7: a connection whose Authorization header is bad is closed with the
\* policy-violation code and is never registered: the step leaves the
\* registry, the desired set, the upstream state and every thread unchanged.
C7_RejectUnauthorized ==
    /\ [][\A c \in Clients :
             (lastAuth'.client = c /\ BadHeader(lastAuth'))
                 => /\ status'[c] = "rejected"
                    /\ closeCode'[c] = WS_1008_POLICY_VIOLATION
                    /\ UNCHANGED <<registryVars, upstreamVars, pc>>]_vars
    /\ [](\A c \in Clients : status[c] = "rejected" => c \notin connected_clients)

\* a connection with the right token under another scheme has been rejected
C7_Witness ==
    \E c \in Clients :
        /\ lastAuth.client = c
        /\ lastAuth.parts = <<"Basic", "secret">>
        /\ status[c] = "rejected"
        /\ closeCode[c] = WS_1008_POLICY_VIOLATION

\* C8: every inbound message that is no well-formed subscribe or unsubscribe
\* request gets an error reply; the client stays registered and open, and the
\* registry, the desired set and the upstream state are unchanged.
C8_ErrorReply ==
    [][lastIn'.kind \in {"badjson", "other", "nonobject", "badpairs"}
          => /\ \E d \in lastSent' :
                   /\ d.to = lastIn'.client
                   /\ d.msg.kind \in {"error_invalid_json", "error_invalid_type"}
             /\ pc'[EL] = "el_idle"
             /\ UNCHANGED <<status, registryVars, upstreamVars>>]_vars

\* C9: the only confirmations delivered are the endpoint's replies to the
\* client that sent the request: no confirmation reaches a client a second
\* time through the broadcast, and none reaches another client.
C9_OneConfirmation ==
    \A d \in lastSent :
        d.msg.kind \in {"subscribe", "unsubscribe"}
            => d.via = "endpoint" /\ d.to = d.msg.origin

\* C10: subscribe, unsubscribe and remove_client called with an id that is not
\* in the registry return at once: they change neither the registry nor the
\* subscription sets, the desired set or the upstream, and send nothing.
C10_UnknownIdNoOp ==
    [][ /\ (lastEarly' \cap {"subscribe", "remove_client"} # {})
           => /\ UNCHANGED <<registryVars, upstreamVars>>
              /\ lastUp' = NoUp
              /\ \A t \in Threads :
                    pc'[t] # pc[t] =>
                        pc'[t] \in {"el_confirm", "el_close", "up_recv", "bc_fwd"}
        /\ ("unsubscribe" \in lastEarly')
           => /\ UNCHANGED <<subs, subscribed_pairs, current, upstreamVars>>
              /\ lastUp' = NoUp
              /\ lastIn'.kind = "unsubscribe"
                    => UNCHANGED connected_clients /\ pc'[EL] = "el_confirm" ]_vars

\* remove_client has been called for a client that was removed before
C10_Witness ==
    /\ lastEarly = {"remove_client"}
    /\ \E t \in {EL, BC} : pc[t] \in {"el_close", "bc_fwd"}

\* C11: the price updates written to one client go out in the order in which
\* the upstream frames were received (the frames are numbered as on_message
\* takes them), and no frame is written to the same client twice: every price
\* frame written to a client has a higher number than every frame written to
\* it before.
C11_DeliveryOrder ==
    [][\A d \in lastSent' :
          d.frame.kind = "price" => \A n \in delivered[d.to] : d.frame.ts > n]_vars

\* the second frame has just been written to a registered client that got the
\* first one before
C11_Witness ==
    \E d \in lastSent :
        /\ d.frame.kind = "price"
        /\ d.frame.ts = 2
        /\ d.to \in connected_clients
        /\ delivered[d.to] = {1, 2}

\* the queue item the broadcast thread works on in its next step, and the
\* clients its forwarding loop has still to visit
InHand == IF pc[BC] = "bc_get" THEN Head(queue) ELSE bcData
ToVisit == IF pc[BC] = "bc_get" THEN SortedSeq(connected_clients) ELSE bcList

\* a step of the forwarding loop (lines 106-139)
ForwardStep ==
    \/ /\ pc[BC] = "bc_get" /\ queue # <<>> /\ queue' = Tail(queue)
       /\ connected_clients # {} /\ Head(queue).kind # "subscribe"
    \/ /\ pc[BC] = "bc_fwd"
       /\ (pc'[BC] # "bc_fwd" \/ bcList' # bcList)

\* the loop writes the item to client c if its transport takes it
Addressed(data, c) == c \notin closed_ws /\ Outgoing(data, subs[c]) # NoMsg

\* the position in list l of the first client whose write raises or stalls
FirstFailing(data, l) ==
    LET F == {i \in 1..Len(l) : Addressed(data, l[i]) /\ status[l[i]] # "open"} IN
    IF F = {} THEN Len(l) + 1 ELSE CHOOSE i \in F : \A j \in F : i <= j

C13_SlowClientDoesNotBlock ==
    pc[BC] = "bc_blocked" =>
        \A i \in 1..Len(bcList) :
            ~ ( /\ bcList[i] \in connected_clients
                /\ status[bcList[i]] = "open"
                /\ Addressed(bcData, bcList[i]) )

\* C14: the subscription set of a registered client changes only in a step
\* that processes a subscribe or unsubscribe message of that client.
C14_OwnRequestsOnly ==
    [][\A c \in Clients :
          (c \in connected_clients /\ c \in connected_clients' /\ subs'[c] # subs[c])
              => /\ lastIn'.client = c
                 /\ lastIn'.kind \in {"subscribe", "unsubscribe"}]_vars

\* a step in which thread t enters remove_client and pops a client, and the
\* step in which it runs the end of remove_client (lines 220-228)
RemovePops(t) == pc[t] # "rm3" /\ pc'[t] = "rm3"
RemoveEnds(t) == pc[t] = "rm3" /\ pc'[t] # "rm3"

\* C15: removing a client while another client remains registered takes only
\* that client out of the registry, leaves the subscriptions and the transport
\* of every other client as they are, and leaves the upstream (handle, running
\* flag, sockets, connect guard) and the broadcast thread's stop flag unchanged.
C15_RemovalIsLocal ==
    [][\A t \in Threads :
          /\ (RemovePops(t) /\ connected_clients' # {})
                => /\ connected_clients' = connected_clients \ {loc'[t].cid}
                   /\ \A c \in connected_clients' : subs'[c] = subs[c]
                   /\ UNCHANGED <<status, upstreamVars, stop_event>>
          /\ (RemoveEnds(t) /\ connected_clients # {})
                => UNCHANGED <<connected_clients, subs, status, upstreamVars, stop_event>>
          /\ (pc[t] = "el_close" /\ pc'[t] # "el_close")
                => /\ \A c \in Clients \ {loc[t].cid} : status'[c] = status[c]
                   /\ UNCHANGED <<connected_clients, subs, upstreamVars, stop_event>> ]_vars

\* the endpoint has removed a client that held a pair no other client holds,
\* while the other client is registered and the upstream is connected
C15_Witness ==
    /\ pc[EL] = "el_close"
    /\ loc[EL].cid \notin connected_clients
    /\ connected_clients # {}
    /\ subs[loc[EL].cid] # {}
    /\ \A c \in connected_clients : status[c] = "open" /\ subs[c] \cap subs[loc[EL].cid] = {}
    /\ WsConnected /\ running

\* C16: no requested pair is permanently lost by a teardown: while a
\* registered client with an open transport holds a pair, the broadcast thread,
\* the only thread that writes price updates to clients, has not ended (once
\* ended it is never started again, so no state with a delivery can follow).
C16_PairNotLost ==
    (\E c \in connected_clients : status[c] = "open" /\ subs[c] # {})
        => pc[BC] # "bc_dead"

\* no socket of the upstream is connecting or connected
UpstreamDown == \A k \in Conns : conn[k] \notin {"connecting", "open"}

\* thread t goes on into connect() past its guard (line 310)
EntersConnect(t) == pc[t] # "con2" /\ pc'[t] = "con2"

\* C17: an upstream close that finds no client registered attempts no
\* reconnect; and while the upstream is down, no request is being processed
\* and no registered client holds a pair, no thread other than an upstream
\* thread (whose on_close reconnects for the clients it finds registered)
\* starts an upstream connect, except in a step that processes a client's
\* subscribe message.
C17_DownUntilSubscribe ==
    [][ /\ \A k \in Conns :
             (pc[Up(k)] \in {"up_start", "up_recv"} /\ pc'[Up(k)] # pc[Up(k)]
                 /\ conn'[k] = "closed" /\ connected_clients = {})
             => pc'[Up(k)] = "up_dead" /\ ws' = NoConn /\ ~running'
        /\ \A t \in Threads :
             ( /\ EntersConnect(t) /\ t[1] # "up"
               /\ UpstreamDown /\ ClientUnion = {} /\ pc[EL] = "el_idle" )
             => lastIn'.kind = "subscribe" ]_vars

\* C18: accepting a client while no registered client holds a pair registers
\* it with an empty subscription set and starts no connect attempt: no thread
\* is started and the upstream is left as it is.
C18_AcceptIsLazy ==
    [][\A c \in Clients :
          (lastAuth'.client = c /\ status'[c] = "open" /\ ClientUnion = {})
              => /\ c \in connected_clients'
                 /\ subs'[c] = {}
                 /\ pc' = pc
                 /\ UNCHANGED upstreamVars]_vars

\* C20: whenever no operation of the relay is in progress, the desired set
\* equals the union of the subscription sets of the registered clients.
C20_DesiredEqualsUnion == Quiescent => subscribed_pairs = ClientUnion

\* the keys of every record the endpoint returns
BodyKeys == {"image", "type", "ticker", "lastUpdated", "price", "sources", "variations",
             "chart", "ema", "macd", "error", "isUnsupported"}

\* the client returned a body that is not empty
ReturnedData(res) == res.result.kind = "return" /\ ~Falsy(res.result.data)

\* the fields of an object that the endpoint converts can be converted
Converts(data) ==
    /\ data.shape = "dict"
    /\ int16(Get(data, "price", Str(<<"0", "x", "0">>))).ok
    /\ Get(data, "decimals", Num(8)).type = "int"
    /\ Get(data, "variations", Dict("empty")).type = "dict"

InConnect(t) == pc[t] \in {"con2", "con3"}

\* C21: the connect guard gives mutual exclusion: at most one call of
\* connect() is past the guard test and before the release at any time (a
\* call that arrives while another is in flight returns at line 308).
C21_ConnectMutex ==
    \A t, u \in Threads : (InConnect(t) /\ InConnect(u)) => t = u

\* WebSocketApp k is live: its socket is connecting or connected
Live(k) == conn[k] \in {"connecting", "open"}

\* C22: there is at most one live upstream connection, and a live connection
\* is the one self.ws references.
C22_OneLiveConnection ==
    \A k \in Conns : Live(k) => ws = k

\* C23: every subscribe or unsubscribe frame written to the upstream socket
\* lists the whole desired set as it is when the frame is written, whatever
\* pairs the request that caused it names.
C23_FullDesiredSet ==
    [][lastUp'.type \in {"subscribe", "unsubscribe"}
          => lastUp'.pairs = subscribed_pairs']_vars

\* a client's unsubscribe has orphaned one pair while another stays desired:
\* the frame written lists the pair that stays, not the one given up
C23_Witness ==
    /\ lastUp.type = "unsubscribe"
    /\ lastUp.by = "msg"
    /\ lastUp.requested # {}
    /\ lastUp.pairs # {}
    /\ lastUp.pairs \cap lastUp.requested = {}
    /\ lastUp.pairs = subscribed_pairs

\* C24: nothing written to a client is made from a subscribe or unsubscribe
\* acknowledgement that the upstream sent.
C24_AcksNotForwarded ==
    \A d \in lastSent : d.frame.kind \notin {"ack_subscribe", "ack_unsubscribe"}

\* the forwarding loop reaches position i of list l in one step: every client
\* before it that is not marked closed takes its write
Reaches(l, i) ==
    \A j \in 1..(i - 1) : l[j] \notin closed_ws => status[l[j]] = "open"

\* C25: in a step of the forwarding loop on a price frame, nothing is written
\* to a client if the frame has entries and none of them is for a pair the
\* client subscribes to; if the frame has no entries, every registered,
\* non-closed client with an open transport that the loop reaches is written
\* a message with an empty entry list and the frame's timestamp.
C25_EmptyUpdates ==
    [][(ForwardStep /\ InHand.kind = "price") =>
          /\ \A c \in Clients :
                (InHand.entries # <<>> /\ Kept(InHand.entries, subs[c]) = {})
                    => ~ \E d \in lastSent' : d.to = c
          /\ InHand.entries = <<>> =>
                \A i \in 1..Len(ToVisit) :
                    ( /\ ToVisit[i] \in connected_clients
                      /\ ToVisit[i] \notin closed_ws
                      /\ status[ToVisit[i]] = "open"
                      /\ Reaches(ToVisit, i) )
                    => \E d \in lastSent' :
                          /\ d.to = ToVisit[i]
                          /\ d.msg = PriceMsg(<<>>, InHand.ts)]_vars

\* a frame without entries has been written, with its timestamp, to both
\* registered clients, one of which subscribes to nothing
C25_Witness ==
    /\ connected_clients = Clients
    /\ \E c \in Clients : subs[c] = {}
    /\ \E c \in Clients : subs[c] # {}
    /\ \A c \in Clients :
          \E d \in lastSent :
              /\ d.to = c
              /\ d.frame.kind = "price" /\ d.frame.entries = <<>>
              /\ d.msg.kind = "price" /\ d.msg.entries = <<>>
              /\ d.msg.ts = d.frame.ts /\ d.frame.ts > 0

\* the step in which on_message takes the frame that is not JSON
GarbledStep == nframes' = nframes + 1 /\ nframes' = budget.garbled

\* the step in which on_message takes a price frame
PriceStep == nframes' = nframes + 1 /\ nframes' # budget.garbled

\* C26: an upstream frame that is not valid JSON is dropped: the step queues
\* nothing, writes to no client and not to the upstream, and leaves the
\* upstream connection, its thread, the registry, the desired set and the
\* running flag as they are; nothing is ever written to a client for it; and
\* the price frames that come after it (or before) are queued as ever.
C26_GarbledFrameDropped ==
    /\ [][ /\ GarbledStep
              => /\ UNCHANGED <<queue, registryVars, upstreamVars, clientVars,
                                stop_event, pc, stack, loc, bcVars>>
                 /\ lastSent' = NoSent /\ lastUp' = NoUp
           /\ (PriceStep /\ pc[BC] # "bc_dead")
              => \E e \in EntrySeqs : queue' = Append(queue, PriceMsg(e, nframes')) ]_vars
    /\ [](\A d \in lastSent :
             /\ d.frame.kind # "badjson"
             /\ d.frame.kind = "price" => d.frame.ts # budget.garbled)
    /\ [](\A c \in Clients : budget.garbled \notin delivered[c])

\* the first frame was not JSON; the second, a price frame, has been written
\* to a registered client over the same upstream connection, still open
C26_Witness ==
    /\ budget.garbled = 1
    /\ NConn = 1 /\ WsConnected /\ running
    /\ \E d \in lastSent :
          /\ d.frame.kind = "price" /\ d.frame.ts = 2
          /\ d.msg.entries # <<>>
          /\ d.to \in connected_clients
          /\ delivered[d.to] = {2}

\* C27: an unsubscribe call writes an unsubscribe frame to the upstream only
\* if one of its pairs became orphaned by it: the pair was in the desired set
\* and no registered client holds it after the call.
C27_FrameOnlyForOrphans ==
    [][\A t \in Threads :
          (UnsubscribeStep(t) /\ lastUp'.type = "unsubscribe")
              => \E p \in loc[t].pairs :
                    p \in subscribed_pairs /\ p \notin ClientUnion']_vars

\* C28: the dispatch worker outlives the teardown of the upstream: the
\* broadcast thread, which __init__ starts once and nothing starts again, has
\* not ended, so that what is put on the queue later is still consumed.
C28_WorkerOutlivesTeardown == pc[BC] # "bc_dead"

\* the run_forever thread of WebSocketApp k, whose socket was connected and
\* has been closed by the relay, runs on_close
ClosedByRelay(k) ==
    /\ pc[Up(k)] = "up_recv"
    /\ pc'[Up(k)] # pc[Up(k)]
    /\ conn[k] = "closed"

\* C29: once an unsubscribe has emptied the desired set and closed the
\* upstream while clients are registered, the upstream stays idle: the close
\* callback of the connection makes no connect attempt.
C29_IdleWhileNothingDesired ==
    [][\A k \in Conns :
          (ClosedByRelay(k) /\ subscribed_pairs = {} /\ connected_clients # {})
              => /\ pc'[Up(k)] = "up_dead"
                 /\ \A t \in Threads : ~EntersConnect(t)]_vars

\* C30: no unsubscribe frame written to the upstream lists a pair that a
\* registered client still holds.
C30_UnsubscribeListsNoHeldPair ==
    lastUp.type = "unsubscribe" => lastUp.pairs \cap ClientUnion = {}

====
